---- MODULE Spec2Model ----
(***************************************************************************)
(* Model of the hot-potato charm (src/src/charm.py).                       *)
(*                                                                         *)
(* Every unit of the application runs the same charm.  A unit handles one  *)
(* hook at a time; units run concurrently with each other.  The token      *)
(* travels through the peer relation "players": each unit owns one slot    *)
(* (its relation data bag, key "token") that only it writes, and every     *)
(* other unit is told by a relation-changed hook that the slot changed.    *)
(* The hook reads the slot as it is when the hook runs.                    *)
(*                                                                         *)
(* Forward.forward is modelled one activation at a time: the checks of     *)
(* lines 34-43, then the hop of lines 45-55, the sleep of lines 56-57 and  *)
(* the rest of the hop (lines 58-66).  A self-hop is the recursive call of *)
(* line 63; depth counts the activations that are on the call stack.       *)
(*                                                                         *)
(* Time is counted in clock ticks of 4 ms.  Every unit reads its own       *)
(* clock (time.time() on its own machine).                                 *)
(***************************************************************************)
EXTENDS Integers, Sequences, FiniteSets, TLC

\* ------------------------------------------------------------------ bounds
\* Largest configured pass limit that is explored.
MaxPasses == 2
\* Largest reading of a unit's clock, in ticks; clocks stop there.
MaxClock == 1
\* Without a pass limit the game never ends: hops stop at this count.
MaxHops == MaxPasses

\* The units of the application (unit.name).
Units == {"hp/0", "hp/1", "hp/2"}
\* The deployments that are explored: one, two or three related units.
Deployments == {{"hp/0"}, {"hp/0", "hp/1"}, {"hp/0", "hp/1", "hp/2"}}
\* The unit the operator runs the start action on (the units are alike).
Initiator == "hp/0"
\* The configured delays (config "delay", in ticks): none, or one tick.
Delays == {0, 1}
\* The operator's messages (event.params["token"]).
Messages == {"hi"}

\* The interpreter's limit on nested calls (sys.getrecursionlimit(), 1000
\* unless changed): forward calls itself on line 63 once per self-hop, so no
\* more than this many activations of forward can be on the call stack.
RecursionLimit == 1000

\* max-passes unset (Python's None; line 32 and line 111).
NoLimit == -1
\* Python's None as a value: forward's "nothing to transmit", no local token.
PyNone == [none |-> TRUE]
\* The relation data bag has no key "token".
NoKey == <<>>
\* The key "token" is there and its value is the empty string.
EmptyText == <<"">>

VARIABLES
    members,  \* the units that are deployed and related (fixed peer set)
    stored,   \* stored[n]: the unit's StoredState bucket (passes, delay)
    clock,    \* clock[n]: the last reading of the unit's clock, in ticks
    status,   \* status[n]: unit.status
    slot,     \* slot[n]: the unit's own relation data, key "token"
    pend,     \* pend[n][u]: a relation-changed hook for u's slot is due on n
    started,  \* the operator has run the start action
    pc,       \* pc[n]: where the unit is in its hook
    hook,     \* hook[n]: the handler that called forward
    tok,      \* tok[n]: the token dict the hook works on
    peers,    \* peers[n]: the peer list the hook built
    ret,      \* ret[n]: what forward returned
    depth     \* depth[n]: activations of forward on the call stack

vars == <<members, stored, clock, status, slot, pend, started,
          pc, hook, tok, peers, ret, depth>>

\* ------------------------------------------------------------- pure helpers
Min(a, b) == IF a < b THEN a ELSE b

RECURSIVE SetToSeq(_)
SetToSeq(S) ==
    IF S = {} THEN <<>>
    ELSE LET x == CHOOSE y \in S : TRUE IN <<x>> \o SetToSeq(S \ {x})

\* f'{x:.2f}' of a time of t ticks of 4 ms, as a number of hundredths of a
\* second: 0.4*t rounded to the nearest integer (0.4*t is never half-way).
Fmt2(t) == (4 * t + 5) \div 10

\* _Codec.dumps: the token dict as the JSON text written to the slot, here
\* the values in key order.
dumps(m) ==
    <<m.message, m.holder, m.times_passed, m.time_elapsed, m.timestamp>>

\* _Codec.loads: the dict read back from the JSON text.
loads(s) ==
    [message |-> s[1], holder |-> s[2], times_passed |-> s[3],
     time_elapsed |-> s[4], timestamp |-> s[5]]

\* ActiveStatus(): the empty status.
IdleStatus == <<"active", "">>

\* Lines 36-39: the completion status.
CompletionStatus(token) ==
    <<"active", "Maximum passes reached. Time to completion is",
      Fmt2(token.time_elapsed), "seconds.">>

\* Lines 45-50: the status while a hop is in progress.
HopStatus(token) ==
    <<"active", "M:", token.message, "H:", token.holder,
      "P:", token.times_passed, "T:", Fmt2(token.time_elapsed)>>

\* The status is the completion message of lines 36-39.
IsCompletion(s) == s[2] = "Maximum passes reached. Time to completion is"

\* Mutant: the limit is tested with > where the code has ==.
TerminationCheck_gt(token, name, max_passes) ==
    /\ max_passes # NoLimit
    /\ token.times_passed > max_passes
    /\ token.holder = name

\* Mutant: the limit is tested one pass late.
TerminationCheck_late(token, name, max_passes) ==
    /\ max_passes # NoLimit
    /\ token.times_passed = max_passes + 1
    /\ token.holder = name

\* Mutant: the test for a missing limit is the wrong way round.
TerminationCheck_none(token, name, max_passes) ==
    /\ max_passes = NoLimit \/ token.times_passed = max_passes
    /\ token.holder = name

\* Mutant: the check leaves out who holds the token.
TerminationCheck_anyHolder(token, name, max_passes) ==
    /\ max_passes # NoLimit
    /\ token.times_passed = max_passes

\* Lines 34-35: the termination check.
TerminationCheck(token, name, max_passes) ==
    /\ max_passes # NoLimit
    /\ token.times_passed = max_passes
    /\ token.holder = name

\* Mutant: the ownership check is the wrong way round.
NotMine_inverted(token, name) == token.holder = name

\* Line 42: the ownership check.
NotMine(token, name) == token.holder # name

\* Mutant: the hop forgets to count the pass.
HopToken_uncounted(token, next, now) ==
    [token EXCEPT !.holder = next,
                  !.time_elapsed = @ + (now - token.timestamp),
                  !.timestamp = now]

\* Lines 51-55: the hop, with the next holder and the clock reading.
HopToken(token, next, now) ==
    [token EXCEPT !.holder = next,
                  !.times_passed = @ + 1,
                  !.time_elapsed = @ + (now - token.timestamp),
                  !.timestamp = now]

\* Lines 147 and 169: self first, then the related units.
PeerList(n) == <<n>> \o SetToSeq(members \ {n})

\* Lines 170-176: the first token.
FirstToken(msg, holder, now) ==
    [message |-> msg, holder |-> holder, times_passed |-> 0,
     time_elapsed |-> 0, timestamp |-> now]

\* Hops are explored up to MaxHops, or up to the pass limit when that is
\* larger.
HopBound(max_passes) ==
    IF max_passes > MaxHops THEN max_passes ELSE MaxHops

\* The configurations an operator can set.
Configs == [passes : {NoLimit} \cup 0..MaxPasses, delay : Delays]

\* -------------------------------------------------------------------- Init
\* The units are installed (line 117), their config-changed hook has stored
\* the application's configuration (lines 119-129), and the relation is
\* joined and settled: no relation-changed hook is due.
Init ==
    /\ members \in Deployments
    /\ \E c \in Configs : stored = [n \in Units |-> c]
    /\ clock = [n \in Units |-> 0]
    /\ status = [n \in Units |-> IdleStatus]
    /\ slot = [n \in Units |-> NoKey]
    /\ pend = [n \in Units |-> [u \in Units |-> FALSE]]
    /\ started = FALSE
    /\ pc = [n \in Units |-> "idle"]
    /\ hook = [n \in Units |-> "none"]
    /\ tok = [n \in Units |-> PyNone]
    /\ peers = [n \in Units |-> <<>>]
    /\ ret = [n \in Units |-> PyNone]
    /\ depth = [n \in Units |-> 0]

\* ----------------------------------------------------------------- actions
\* time.time() on unit n: a reading t of its clock, never before the unit's
\* last reading.  The clocks of different units are not synchronized.
ClockReadings(n) == clock[n]..MaxClock

\* _on_start_action, lines 162-177: build the first token and call forward.
\* The operator starts one game.
StartAction(n) ==
    /\ n \in members /\ n = Initiator
    /\ pc[n] = "idle"
    /\ ~started
    /\ started' = TRUE
    /\ \E msg \in Messages : \E i \in 1..Len(PeerList(n)) :
       \E t \in ClockReadings(n) :
           /\ tok' = [tok EXCEPT ![n] = FirstToken(msg, PeerList(n)[i], t)]
           /\ clock' = [clock EXCEPT ![n] = t]
    /\ peers' = [peers EXCEPT ![n] = PeerList(n)]
    /\ hook' = [hook EXCEPT ![n] = "start"]
    /\ pc' = [pc EXCEPT ![n] = "forward"]
    /\ depth' = [depth EXCEPT ![n] = 1]
    /\ UNCHANGED <<members, stored, status, slot, pend, ret>>

\* Mutant: on a missing token the handler blanks its own slot, as the
\* update of line 168 would.
RelationChanged_blanksSlot(n, u) ==
    /\ n \in members /\ u \in members /\ n # u
    /\ pc[n] = "idle"
    /\ pend[n][u]
    /\ IF slot[u] = NoKey \/ slot[u] = EmptyText
       THEN /\ slot' = [slot EXCEPT ![n] = EmptyText]
            /\ pend' = [pend EXCEPT ![n][u] = FALSE]
            /\ UNCHANGED <<pc, hook, tok, peers, depth>>
       ELSE /\ tok' = [tok EXCEPT ![n] = loads(slot[u])]
            /\ peers' = [peers EXCEPT ![n] = PeerList(n)]
            /\ hook' = [hook EXCEPT ![n] = "changed"]
            /\ pc' = [pc EXCEPT ![n] = "forward"]
            /\ depth' = [depth EXCEPT ![n] = 1]
            /\ pend' = [pend EXCEPT ![n][u] = FALSE]
            /\ UNCHANGED slot
    /\ UNCHANGED <<members, stored, clock, status, started, ret>>

\* _on_players_relation_changed, lines 139-151: the hook for unit u's slot.
RelationChanged(n, u) ==
    /\ n \in members /\ u \in members /\ n # u
    /\ pc[n] = "idle"
    /\ pend[n][u]
    /\ pend' = [pend EXCEPT ![n][u] = FALSE]
    /\ IF slot[u] = NoKey \/ slot[u] = EmptyText
       THEN UNCHANGED <<pc, hook, tok, peers, depth>>
       ELSE /\ tok' = [tok EXCEPT ![n] = loads(slot[u])]
            /\ peers' = [peers EXCEPT ![n] = PeerList(n)]
            /\ hook' = [hook EXCEPT ![n] = "changed"]
            /\ pc' = [pc EXCEPT ![n] = "forward"]
            /\ depth' = [depth EXCEPT ![n] = 1]
    /\ UNCHANGED <<members, stored, clock, status, slot, started, ret>>

\* forward, lines 34-40: the pass limit is reached on the holder.
Terminate(n) ==
    /\ pc[n] = "forward"
    /\ TerminationCheck(tok[n], n, stored[n].passes)
    /\ status' = [status EXCEPT ![n] = CompletionStatus(tok[n])]
    /\ ret' = [ret EXCEPT ![n] = PyNone]
    /\ pc' = [pc EXCEPT ![n] = "returned"]
    /\ UNCHANGED <<members, stored, clock, slot, pend, started,
                   hook, tok, peers, depth>>

\* forward, lines 42-43: the token is not for this unit.
NotHolder(n) ==
    /\ pc[n] = "forward"
    /\ ~TerminationCheck(tok[n], n, stored[n].passes)
    /\ NotMine(tok[n], n)
    /\ ret' = [ret EXCEPT ![n] = PyNone]
    /\ pc' = [pc EXCEPT ![n] = "returned"]
    /\ UNCHANGED <<members, stored, clock, status, slot, pend, started,
                   hook, tok, peers, depth>>

\* forward, lines 44-55: the unit holds the token and hands it off.
HopBegin_anyUnit(n) ==
    /\ pc[n] = "forward"
    /\ ~TerminationCheck(tok[n], n, stored[n].passes)
    /\ ~NotMine(tok[n], n)
    /\ tok[n].times_passed < HopBound(stored[n].passes)
    /\ status' = [status EXCEPT ![n] = HopStatus(tok[n])]
    /\ \E next \in Units : \E t \in ClockReadings(n) :
           /\ tok' = [tok EXCEPT ![n] = HopToken(tok[n], next, t)]
           /\ clock' = [clock EXCEPT ![n] = t]
    /\ pc' = [pc EXCEPT ![n] = "sleep"]
    /\ UNCHANGED <<members, stored, slot, pend, started,
                   hook, peers, ret, depth>>

HopBegin(n) ==
    /\ pc[n] = "forward"
    /\ ~TerminationCheck(tok[n], n, stored[n].passes)
    /\ ~NotMine(tok[n], n)
    /\ tok[n].times_passed < HopBound(stored[n].passes)
    /\ status' = [status EXCEPT ![n] = HopStatus(tok[n])]
    /\ \E i \in 1..Len(peers[n]) : \E t \in ClockReadings(n) :
           /\ tok' = [tok EXCEPT ![n] = HopToken(tok[n], peers[n][i], t)]
           /\ clock' = [clock EXCEPT ![n] = t]
    /\ pc' = [pc EXCEPT ![n] = "sleep"]
    /\ UNCHANGED <<members, stored, slot, pend, started,
                   hook, peers, ret, depth>>

\* Mutant: the hop returns its token also when the new holder is the unit
\* itself.
HopEnd_noSelfCheck(n) ==
    /\ pc[n] = "sleep"
    /\ clock' = [clock EXCEPT ![n] =
                    IF stored[n].delay > 0
                    THEN Min(@ + stored[n].delay, MaxClock) ELSE @]
    /\ status' = [status EXCEPT ![n] = IdleStatus]
    /\ pc' = [pc EXCEPT ![n] = "returned"]
    /\ ret' = [ret EXCEPT ![n] = tok[n]]
    /\ UNCHANGED <<members, stored, slot, pend, started,
                   hook, tok, peers, depth>>

\* forward, lines 56-66: sleep for the delay, clear the status, then call
\* forward again for a self-hop or return the token.
HopEnd(n) ==
    /\ pc[n] = "sleep"
    /\ clock' = [clock EXCEPT ![n] =
                    IF stored[n].delay > 0
                    THEN Min(@ + stored[n].delay, MaxClock) ELSE @]
    /\ status' = [status EXCEPT ![n] = IdleStatus]
    /\ tok[n].holder = n => depth[n] < RecursionLimit
    /\ IF tok[n].holder = n
       THEN /\ pc' = [pc EXCEPT ![n] = "forward"]
            /\ depth' = [depth EXCEPT ![n] = @ + 1]
            /\ UNCHANGED ret
       ELSE /\ pc' = [pc EXCEPT ![n] = "returned"]
            /\ ret' = [ret EXCEPT ![n] = tok[n]]
            /\ UNCHANGED depth
    /\ UNCHANGED <<members, stored, slot, pend, started, hook, tok, peers>>

\* forward, lines 56-63, when the call stack is full: the recursive call of
\* line 63 raises RecursionError, which nothing catches: the hook fails and
\* writes nothing.
RecursionError(n) ==
    /\ pc[n] = "sleep"
    /\ tok[n].holder = n
    /\ depth[n] >= RecursionLimit
    /\ clock' = [clock EXCEPT ![n] =
                    IF stored[n].delay > 0
                    THEN Min(@ + stored[n].delay, MaxClock) ELSE @]
    /\ status' = [status EXCEPT ![n] = IdleStatus]
    /\ pc' = [pc EXCEPT ![n] = "failed"]
    /\ ret' = [ret EXCEPT ![n] = [raised |-> "RecursionError"]]
    /\ UNCHANGED <<members, stored, slot, pend, started, hook, tok, peers,
                   depth>>

\* The hook is over: its locals are gone.
HookLocalsCleared(n) ==
    /\ pc' = [pc EXCEPT ![n] = "idle"]
    /\ hook' = [hook EXCEPT ![n] = "none"]
    /\ tok' = [tok EXCEPT ![n] = PyNone]
    /\ peers' = [peers EXCEPT ![n] = <<>>]
    /\ ret' = [ret EXCEPT ![n] = PyNone]
    /\ depth' = [depth EXCEPT ![n] = 0]

\* The unit's slot is written: every related unit is told.
SlotWritten(n, token) ==
    /\ slot' = [slot EXCEPT ![n] = dumps(token)]
    /\ pend' = [m \in Units |-> [u \in Units |->
                   IF u = n /\ m # n /\ m \in members
                   THEN TRUE ELSE pend[m][u]]]

\* Mutant: the handler writes its token back also when forward returned
\* None, as the start action does.
RelationChangedReturn_writesBack(n) ==
    /\ pc[n] = "returned"
    /\ hook[n] = "changed"
    /\ SlotWritten(n, IF ret[n] # PyNone THEN ret[n] ELSE tok[n])
    /\ HookLocalsCleared(n)
    /\ UNCHANGED <<members, stored, clock, status, started>>

\* _on_players_relation_changed, lines 152-160: write the returned token.
RelationChangedReturn(n) ==
    /\ pc[n] = "returned"
    /\ hook[n] = "changed"
    /\ IF ret[n] = PyNone
       THEN UNCHANGED <<slot, pend>>
       ELSE SlotWritten(n, ret[n])
    /\ HookLocalsCleared(n)
    /\ UNCHANGED <<members, stored, clock, status, started>>

\* _on_start_action, lines 180-184: write the returned token, or the
\* handler's own token when forward returned None.
StartActionReturn(n) ==
    /\ pc[n] = "returned"
    /\ hook[n] = "start"
    /\ SlotWritten(n, IF ret[n] # PyNone THEN ret[n] ELSE tok[n])
    /\ HookLocalsCleared(n)
    /\ UNCHANGED <<members, stored, clock, status, started>>

Next ==
    \E n \in Units :
        \/ StartAction(n)
        \/ \E u \in Units : RelationChanged(n, u)
        \/ Terminate(n)
        \/ NotHolder(n)
        \/ HopBegin(n)
        \/ HopEnd(n)
        \/ RelationChangedReturn(n)
        \/ StartActionReturn(n)

Spec == Init /\ [][Next]_vars

\* The steps of unit n that the unit's agent runs without the operator: a
\* hook that is due starts, and a hook that runs goes on to its end.
UnitStep(n) ==
    \/ \E u \in Units : RelationChanged(n, u)
    \/ Terminate(n)
    \/ NotHolder(n)
    \/ HopBegin(n)
    \/ HopEnd(n)
    \/ RecursionError(n)
    \/ RelationChangedReturn(n)
    \/ StartActionReturn(n)

\* Every relation-changed hook that is due runs, and every hook ends.
FairSpec == Spec /\ \A n \in Units : WF_vars(UnitStep(n))

\* ------------------------------------------------ a deployment of one unit
\* One unit, related to no other: the pass limit is small, or it is as
\* large as the interpreter's limit on nested calls.
InitSolo ==
    /\ members = {Initiator}
    /\ \E c \in [passes : 0..MaxPasses \cup {RecursionLimit},
                  delay : Delays] : stored = [n \in Units |-> c]
    /\ clock = [n \in Units |-> 0]
    /\ status = [n \in Units |-> IdleStatus]
    /\ slot = [n \in Units |-> NoKey]
    /\ pend = [n \in Units |-> [u \in Units |-> FALSE]]
    /\ started = FALSE
    /\ pc = [n \in Units |-> "idle"]
    /\ hook = [n \in Units |-> "none"]
    /\ tok = [n \in Units |-> PyNone]
    /\ peers = [n \in Units |-> <<>>]
    /\ ret = [n \in Units |-> PyNone]
    /\ depth = [n \in Units |-> 0]

\* No relation-changed hook runs on a unit without peers.
NextSolo ==
    \E n \in Units :
        \/ StartAction(n)
        \/ Terminate(n)
        \/ HopBegin(n)
        \/ HopEnd(n)
        \/ RecursionError(n)
        \/ StartActionReturn(n)

SpecSolo == InitSolo /\ [][NextSolo]_vars

FairSolo == SpecSolo /\ \A n \in Units : WF_vars(UnitStep(n))

\* ------------------------------------------------- forward as a function
\* The tokens, peer lists and configurations forward is called with.
Tokens ==
    [message : Messages, holder : Units, times_passed : 0..MaxHops,
     time_elapsed : 0..MaxClock, timestamp : 0..MaxClock]

PeerLists == {SetToSeq(S) : S \in SUBSET Units \ {{}}}

\* One call forward(token, peers, unit, delay=, max_passes=) on some unit,
\* with any token, any non-empty peer list and any configuration.
InitForward ==
    /\ members = Units
    /\ \E c \in Configs : stored = [n \in Units |-> c]
    /\ clock = [n \in Units |-> 0]
    /\ status = [n \in Units |-> IdleStatus]
    /\ slot = [n \in Units |-> NoKey]
    /\ pend = [n \in Units |-> [u \in Units |-> FALSE]]
    /\ started = FALSE
    /\ \E self \in Units, token \in Tokens, ps \in PeerLists :
        /\ pc = [n \in Units |-> IF n = self THEN "forward" ELSE "idle"]
        /\ hook = [n \in Units |-> IF n = self THEN "call" ELSE "none"]
        /\ tok = [n \in Units |-> IF n = self THEN token ELSE PyNone]
        /\ peers = [n \in Units |-> IF n = self THEN ps ELSE <<>>]
        /\ depth = [n \in Units |-> IF n = self THEN 1 ELSE 0]
    /\ ret = [n \in Units |-> PyNone]

NextForward ==
    \E n \in Units :
        \/ Terminate(n)
        \/ NotHolder(n)
        \/ HopBegin(n)
        \/ HopEnd(n)

SpecForward == InitForward /\ [][NextForward]_vars

\* ------------------------------------------- the operator changes the config
\* _on_config_changed, lines 119-129: the unit's hook for an application
\* configuration c; a stored value is replaced when the configured one
\* differs from it.
ConfigChanged(n, c) ==
    /\ n \in members
    /\ pc[n] = "idle"
    /\ stored' = [stored EXCEPT ![n] =
          [passes |-> IF c.passes # @.passes THEN c.passes ELSE @.passes,
           delay  |-> IF c.delay # @.delay THEN c.delay ELSE @.delay]]
    /\ UNCHANGED <<members, clock, status, slot, pend, started,
                   pc, hook, tok, peers, ret, depth>>

\* A game of two units during which the operator may change max-passes
\* any number of times (the delay is left as configured); each unit learns
\* of a change in its own time.
InitReconfig ==
    /\ Init
    /\ members = {"hp/0", "hp/1"}

NextReconfig ==
    \/ Next
    \/ \E n \in Units :
          \E c \in {x \in Configs : x.delay = stored[n].delay} :
              ConfigChanged(n, c)

SpecReconfig == InitReconfig /\ [][NextReconfig]_vars

\* ------------------------------------------------------ duplicate delivery
\* The relation-changed hook for unit u's slot is due on unit n once more,
\* though the slot has not changed since the unit last handled it.
Redeliver(n, u) ==
    /\ n \in members /\ u \in members /\ n # u
    /\ ~pend[n][u]
    /\ slot[u] # NoKey /\ slot[u] # EmptyText
    /\ pend' = [pend EXCEPT ![n][u] = TRUE]
    /\ UNCHANGED <<members, stored, clock, status, slot, started,
                   pc, hook, tok, peers, ret, depth>>

\* A game of two units in which a slot's token may be delivered again.
InitDup ==
    /\ Init
    /\ members = {"hp/0", "hp/1"}

NextDup ==
    \/ Next
    \/ \E n \in Units : \E u \in Units : Redeliver(n, u)

SpecDup == InitDup /\ [][NextDup]_vars

\* ------------------------------------------------- a relation just joined
\* Two units whose relation was just established: each has the hook for the
\* other's slot due, and a slot has no token yet, or the empty string that
\* a revision running the update of line 168 leaves.  The game may start at
\* any moment.
InitJoin ==
    /\ members = {"hp/0", "hp/1"}
    /\ \E c \in Configs : stored = [n \in Units |-> c]
    /\ clock = [n \in Units |-> 0]
    /\ status = [n \in Units |-> IdleStatus]
    /\ slot \in [Units -> {NoKey, EmptyText}]
    /\ slot["hp/2"] = NoKey
    /\ pend = [n \in Units |-> [u \in Units |->
                  n \in members /\ u \in members /\ n # u]]
    /\ started = FALSE
    /\ pc = [n \in Units |-> "idle"]
    /\ hook = [n \in Units |-> "none"]
    /\ tok = [n \in Units |-> PyNone]
    /\ peers = [n \in Units |-> <<>>]
    /\ ret = [n \in Units |-> PyNone]
    /\ depth = [n \in Units |-> 0]

SpecJoin == InitJoin /\ [][Next]_vars

\* --------------------------------------------- forward with no peers at all
\* forward, lines 44-51, with an empty peer list: the status of lines 45-50
\* is set, then random.randint(0, -1) of line 51 raises ValueError before
\* the token is touched.
SelectionFails(n) ==
    /\ pc[n] = "forward"
    /\ ~TerminationCheck(tok[n], n, stored[n].passes)
    /\ ~NotMine(tok[n], n)
    /\ Len(peers[n]) = 0
    /\ status' = [status EXCEPT ![n] = HopStatus(tok[n])]
    /\ pc' = [pc EXCEPT ![n] = "failed"]
    /\ ret' = [ret EXCEPT ![n] = [raised |-> "ValueError"]]
    /\ UNCHANGED <<members, stored, clock, slot, pend, started,
                   hook, tok, peers, depth>>

\* One call of forward with the empty peer list, any token and any
\* configuration.
InitNoPeers ==
    /\ members = Units
    /\ \E c \in Configs : stored = [n \in Units |-> c]
    /\ clock = [n \in Units |-> 0]
    /\ status = [n \in Units |-> IdleStatus]
    /\ slot = [n \in Units |-> NoKey]
    /\ pend = [n \in Units |-> [u \in Units |-> FALSE]]
    /\ started = FALSE
    /\ \E self \in Units, token \in Tokens :
        /\ pc = [n \in Units |-> IF n = self THEN "forward" ELSE "idle"]
        /\ hook = [n \in Units |-> IF n = self THEN "call" ELSE "none"]
        /\ tok = [n \in Units |-> IF n = self THEN token ELSE PyNone]
        /\ depth = [n \in Units |-> IF n = self THEN 1 ELSE 0]
    /\ peers = [n \in Units |-> <<>>]
    /\ ret = [n \in Units |-> PyNone]

NextNoPeers ==
    \E n \in Units :
        \/ Terminate(n)
        \/ NotHolder(n)
        \/ SelectionFails(n)

SpecNoPeers == InitNoPeers /\ [][NextNoPeers]_vars

\* ------------------------------------------------------------------ claims
\* Unit n leaves the checks of an activation of forward in this step.
Leaves(n) == pc[n] = "forward" /\ pc'[n] # "forward"

\* Unit n performs the hop of lines 51-55 in this step.
Hops(n) == pc[n] = "forward" /\ pc'[n] = "sleep"

\* C1: when forward is entered with a token whose holder is not the unit,
\* it returns None and leaves every field of the token as it was, for any
\* token, peer list, delay and max_passes (set or not).
C1_NoOpWhenNotHolder ==
    [][\A n \in Units :
          (Leaves(n) /\ tok[n].holder # n) =>
              /\ pc'[n] = "returned"
              /\ ret'[n] = PyNone
              /\ tok'[n] = tok[n]]_vars

\* forward has returned None on a token that names another unit.
C1_Witness ==
    \E n \in Units :
        /\ pc[n] = "returned" /\ hook[n] = "call"
        /\ ret[n] = PyNone
        /\ tok[n].holder # n
        /\ tok[n].times_passed = stored[n].passes

\* C2: when forward is entered with max_passes = N set, holder = the unit
\* and times_passed = N, it returns None, leaves the token as it was and
\* sets the completion status with the token's time_elapsed as received.
C2_TerminationBoundary ==
    [][\A n \in Units :
          (/\ Leaves(n)
           /\ stored[n].passes # NoLimit
           /\ tok[n].times_passed = stored[n].passes
           /\ tok[n].holder = n) =>
              /\ pc'[n] = "returned"
              /\ ret'[n] = PyNone
              /\ tok'[n] = tok[n]
              /\ status'[n] =
                    <<"active",
                      "Maximum passes reached. Time to completion is",
                      Fmt2(tok[n].time_elapsed), "seconds.">>]_vars

\* forward has returned at the limit, entered at the limit (no hop was
\* made), with more than one peer, a delay and time on the token.
C2_Witness ==
    \E n \in Units :
        /\ pc[n] = "returned" /\ hook[n] = "call"
        /\ depth[n] = 1
        /\ IsCompletion(status[n])
        /\ ret[n] = PyNone
        /\ tok[n].holder = n
        /\ tok[n].times_passed = stored[n].passes
        /\ tok[n].time_elapsed > 0
        /\ stored[n].delay > 0
        /\ Len(peers[n]) > 1

\* The unit is its only peer, holds the token and is at or below the limit.
SelfLoop(n) ==
    /\ pc[n] # "idle"
    /\ peers[n] = <<n>>
    /\ stored[n].passes # NoLimit
    /\ IF pc[n] = "sleep"
       THEN tok[n].times_passed - 1 <= stored[n].passes
       ELSE tok[n].holder = n /\ tok[n].times_passed <= stored[n].passes

\* C9: with the peer list <<A>>, on unit A, holder = A and times_passed =
\* k <= N = max_passes, one call of forward makes self-hops only, each
\* raising times_passed by one up to N and no further, and the call ends
\* only at times_passed = N, by returning None with the completion status:
\* no token is returned for transmission and the call does not fail.
C9_SelfLoopConvergence ==
    [][\A n \in Units :
          SelfLoop(n) =>
              /\ Hops(n) =>
                    /\ tok[n].times_passed < stored[n].passes
                    /\ tok'[n].times_passed = tok[n].times_passed + 1
                    /\ tok'[n].holder = n
              /\ pc[n] = "sleep" => pc'[n] \in {"sleep", "forward"}
              /\ pc'[n] # "failed"
              /\ pc'[n] = "returned" =>
                    /\ tok[n].times_passed = stored[n].passes
                    /\ ret'[n] = PyNone
                    /\ tok'[n] = tok[n]
                    /\ IsCompletion(status'[n])]_vars

\* C10: without max_passes no unit ever has the completion status,
\* whatever times_passed is and whatever hops are made.
C10_UnboundedForwarding ==
    \A n \in Units :
        stored[n].passes = NoLimit => ~IsCompletion(status[n])

\* Without a limit the holder has hopped to itself and then away, up to
\* the largest pass count explored.
C10_Witness ==
    \E n \in Units :
        /\ stored[n].passes = NoLimit
        /\ pc[n] = "returned" /\ hook[n] = "call"
        /\ depth[n] > 1
        /\ ret[n] # PyNone
        /\ ret[n].times_passed = MaxHops

\* ------------------------------------------------------- claims: the game
\* The token written in a slot.
SlotToken(u) == loads(slot[u])

\* The tokens that exist: in the hands of a hook, returned, or in a slot.
TokensAt(n) ==
    (IF tok[n] # PyNone THEN {tok[n]} ELSE {})
    \cup (IF pc[n] = "returned" /\ ret[n] # PyNone THEN {ret[n]} ELSE {})
    \cup (IF slot[n] # NoKey THEN {SlotToken(n)} ELSE {})

\* C3: in a game started by the start action, with the same pass limit N
\* on every unit and every slot change delivered at most once, no token in
\* a hook or in a slot ever has times_passed > N.
C3_MaxPassesIsUpperBound ==
    \A n \in Units :
        stored[n].passes # NoLimit =>
            \A t \in TokensAt(n) : t.times_passed <= stored[n].passes

\* A token that has made all its passes, between units, is in a slot and
\* the unit it names has reported completion.
C3_Witness ==
    \E n \in Units, u \in Units :
        /\ n # u
        /\ stored[n].passes = MaxPasses
        /\ slot[u] # NoKey
        /\ SlotToken(u).times_passed = MaxPasses
        /\ SlotToken(u).holder = n
        /\ IsCompletion(status[n])

\* Some unit has reported completion.
Terminated == \E n \in Units : IsCompletion(status[n])

\* C4: with a pass limit set, the same on every unit, a fixed peer set and
\* every slot change delivered, a started game eventually has a unit that
\* reports completion, whatever next holders are chosen.
C4_EventualTermination ==
    (started /\ \A n \in members : stored[n].passes # NoLimit) ~> Terminated

\* C5: once a unit has reported completion, no unit hops any more: no
\* token's times_passed grows and forward returns no new token.
C5_TerminatedIsAbsorbing ==
    [][Terminated =>
          \A n \in Units :
              /\ ~Hops(n)
              /\ (tok[n] # PyNone /\ tok'[n] # PyNone) =>
                     tok'[n].times_passed <= tok[n].times_passed
              /\ ret'[n] # PyNone => ret'[n] = ret[n]]_vars

\* After the completion on one unit, another unit has run a hook on the
\* finished token and is idle again.
C5_Witness ==
    \E n \in Units, u \in Units, m \in Units :
        /\ n # u /\ m # u /\ m # n
        /\ IsCompletion(status[n])
        /\ pc[m] = "returned" /\ hook[m] = "changed"
        /\ tok[m].holder = n
        /\ tok[m].times_passed = stored[m].passes
        /\ tok[m].times_passed > 0

\* Unit n is in forward as the holder: it is about to hop or to report
\* completion, or it is in the middle of a hop.
Holding(n) ==
    \/ pc[n] = "sleep"
    \/ pc[n] = "forward" /\ tok[n].holder = n

\* The live tokens, each named by where it is: one a hook holds, one a
\* hook is about to write for another unit, one in a slot whose change is
\* still to be delivered to the unit it names.
LiveTokens ==
    {<<"held", n, n>> : n \in {x \in Units : Holding(x)}}
    \cup {<<"returned", n, n>> : n \in {x \in Units :
             /\ pc[x] = "returned"
             /\ \/ ret[x] # PyNone
                \/ hook[x] = "start" /\ tok[x].holder # x}}
    \cup {<<"slot", p[1], p[2]>> : p \in {q \in Units \X Units :
             /\ pend[q[1]][q[2]]
             /\ slot[q[2]] # NoKey
             /\ SlotToken(q[2]).holder = q[1]}}

\* C6: with one start action and every slot change delivered at most once
\* to each peer, no two units are in a hop, or hold the token, at the same
\* moment, and there is at most one live token.
C6_SingleHolder ==
    /\ Cardinality({n \in Units : Holding(n)}) <= 1
    /\ Cardinality(LiveTokens) <= 1

\* The token is in flight to one unit while a third unit runs its hook on
\* the same slot change.
C6_Witness ==
    \E n \in Units, u \in Units, m \in Units :
        /\ n # u /\ m # u /\ m # n
        /\ pend[n][u]
        /\ slot[u] # NoKey
        /\ SlotToken(u).holder = n
        /\ SlotToken(u).times_passed > 0
        /\ pc[m] = "forward"
        /\ tok[m] = SlotToken(u)

\* C7: a hop raises times_passed by exactly 1, and nothing else changes
\* it: not the checks of forward, not the write to the slot, not the
\* delivery; so times_passed never goes down.
C7_ExactIncrement ==
    [][\A n \in Units :
          /\ Hops(n) => tok'[n].times_passed = tok[n].times_passed + 1
          /\ (~Hops(n) /\ tok[n] # PyNone /\ tok'[n] # PyNone) =>
                 tok'[n].times_passed = tok[n].times_passed
          /\ (pc'[n] = "returned" /\ ret'[n] # PyNone) =>
                 ret'[n].times_passed = tok[n].times_passed
          /\ slot'[n] # slot[n] =>
                 loads(slot'[n]).times_passed = tok[n].times_passed
          /\ (tok[n] = PyNone /\ tok'[n] # PyNone /\ hook'[n] = "changed") =>
                 \E u \in Units :
                     /\ pend[n][u] /\ ~pend'[n][u]
                     /\ tok'[n].times_passed = SlotToken(u).times_passed
          /\ (tok[n] = PyNone /\ tok'[n] # PyNone /\ hook'[n] = "start") =>
                 tok'[n].times_passed = 0]_vars

\* A token that was passed between units, delivered and passed on in one
\* hook by a self-hop and a hop, has been written to the slot.
C7_Witness ==
    \E n \in Units, u \in Units :
        /\ n # u
        /\ slot[u] # NoKey /\ slot[n] # NoKey
        /\ SlotToken(u).holder = n
        /\ SlotToken(n).times_passed = SlotToken(u).times_passed + 2
        /\ pend[u][n]

\* C8: time_elapsed never goes down: after every hop, also one on a unit
\* other than the one that set the timestamp, it is at least what it was.
C8_TimeElapsedMonotone ==
    [][\A n \in Units :
          Hops(n) => tok'[n].time_elapsed >= tok[n].time_elapsed]_vars

\* C11: forward called with an empty peer list ends in an error, for every
\* token and every max_passes: it never returns None and never returns a
\* token.
C11_EmptyPeerSetIsAnError ==
    \A n \in Units :
        (hook[n] = "call" /\ peers[n] = <<>>) => pc[n] # "returned"

\* The units a peer list names.
Range(s) == {s[i] : i \in 1..Len(s)}

\* C12: every holder a hop or the start action assigns is one of the peers
\* the invocation was given (the unit itself and the units related to it),
\* every token written to a slot names a holder of the writer's topology,
\* and every peer of the list, the unit itself included, can be chosen.
C12_HolderIsAPeer ==
    [][\A n \in Units :
          /\ Hops(n) =>
                /\ Range(peers[n]) = members
                /\ tok'[n].holder \in Range(peers[n])
          /\ (pc[n] = "idle" /\ hook'[n] = "start") =>
                /\ Range(peers'[n]) = members
                /\ tok'[n].holder \in Range(peers'[n])
          /\ slot'[n] # slot[n] => loads(slot'[n]).holder \in members
          /\ (ENABLED HopBegin(n)) =>
                \A p \in Range(peers[n]) :
                    ENABLED (HopBegin(n) /\ tok'[n].holder = p)
          /\ (ENABLED StartAction(n)) =>
                \A p \in members :
                    ENABLED (StartAction(n) /\ tok'[n].holder = p)]_vars

\* A unit of the smallest shared deployment has written a token that names
\* itself, chosen by its own hop.
C12_Witness ==
    \E n \in Units :
        /\ members = {"hp/0", "hp/1"}
        /\ n # Initiator
        /\ slot[n] # NoKey
        /\ slot[Initiator] # NoKey
        /\ loads(slot[Initiator]).holder = n
        /\ loads(slot[n]).holder = Initiator

\* C13: whenever forward returns None because the token names another
\* holder, the unit's status afterwards is the neutral status, also on a
\* unit that reported completion earlier or receives a stale token.
C13_IdleAfterNoOp ==
    [][\A n \in Units :
          (Leaves(n) /\ tok[n].holder # n) =>
              /\ pc'[n] = "returned" /\ ret'[n] = PyNone
              /\ status'[n] = IdleStatus]_vars

\* The slot has no token to read: no key, or the empty string.
NoToken(u) == slot[u] = NoKey \/ slot[u] = EmptyText

\* C14: when the relation-changed hook finds no key "token" or the empty
\* string in the sender's slot, it is a no-op: forward is not called,
\* nothing is written to the unit's own slot, no unit is told of a change,
\* and the status and the stored configuration stay as they are.
C14_MissingTokenIsNoOp ==
    [][\A n \in Units : \A u \in Units :
          (pc[n] = "idle" /\ pend[n][u] /\ ~pend'[n][u] /\ NoToken(u)) =>
              /\ pc'[n] = "idle" /\ hook'[n] = hook[n]
              /\ tok'[n] = tok[n] /\ depth'[n] = depth[n]
              /\ slot' = slot
              /\ \A m \in Units : ~pend[m][n] => ~pend'[m][n]
              /\ status' = status
              /\ stored' = stored]_vars

\* hp/0 handled the hook for hp/1's slot, which holds the empty string, and
\* the game it started went on to its end.
C14_Witness ==
    /\ slot["hp/0"] # NoKey /\ slot["hp/0"] # EmptyText
    /\ slot["hp/1"] = EmptyText
    /\ ~pend["hp/0"]["hp/1"]
    /\ Terminated

\* The tokens still to be acted on: one a unit holds in a hook, one a hook
\* is about to write, one in a slot whose change is due at its holder.
LiveValues ==
    {tok[n] : n \in {x \in Units : Holding(x)}}
    \cup {ret[n] : n \in {x \in Units :
             pc[x] = "returned" /\ ret[x] # PyNone}}
    \cup {tok[n] : n \in {x \in Units :
             /\ pc[x] = "returned" /\ ret[x] = PyNone
             /\ hook[x] = "start" /\ tok[x].holder # x}}
    \cup {SlotToken(p[2]) : p \in {q \in Units \X Units :
             /\ pend[q[1]][q[2]]
             /\ ~NoToken(q[2])
             /\ SlotToken(q[2]).holder = q[1]}}

\* Every unit has a pass limit, and the game's tokens are all beyond it.
Overshot ==
    /\ LiveValues # {}
    /\ \A m \in members :
          /\ stored[m].passes # NoLimit
          /\ \A t \in LiveValues : t.times_passed > stored[m].passes

\* C15: the termination check is an equality.  When forward is entered on
\* the holder with times_passed greater than the pass limit, the check does
\* not fire and the unit hops, raising times_passed by one; and once every
\* token of the game is beyond every unit's limit, no unit reports
\* completion any more as long as the limits are left as they are.
C15_OvershootNeverTerminates ==
    [][/\ \A n \in Units :
             (/\ Leaves(n)
              /\ tok[n].holder = n
              /\ stored[n].passes # NoLimit
              /\ tok[n].times_passed > stored[n].passes) =>
                 /\ Hops(n)
                 /\ tok'[n].times_passed = tok[n].times_passed + 1
                 /\ ~IsCompletion(status'[n])
       /\ (Overshot /\ stored' = stored) =>
             /\ Overshot'
             /\ \A n \in Units :
                   IsCompletion(status'[n]) => IsCompletion(status[n])]_vars

\* The limit was lowered to 0 on both units while the token was at one
\* pass, no unit has reported completion, and a unit has hopped since.
C15_Witness ==
    /\ Overshot
    /\ ~Terminated
    /\ \A m \in members : stored[m].passes = 0
    /\ \E n \in Units :
          pc[n] = "sleep" /\ hook[n] = "changed" /\ tok[n].times_passed = 2

\* Passes counted before the running call of forward on unit n was entered,
\* less one: each activation that is past line 52 has added one pass.
PassesBefore(n) ==
    tok[n].times_passed - depth[n] - (IF pc[n] = "sleep" THEN 1 ELSE 0)

C17_StartAlwaysWrites ==
    [][\A n \in Units :
          /\ (pc[n] = "idle" /\ hook'[n] = "start") =>
                /\ pc'[n] = "forward"
                /\ slot' = slot
          /\ (hook[n] = "start" /\ Leaves(n) /\ depth[n] = 1
                 /\ tok[n].holder # n) =>
                /\ pc'[n] = "returned" /\ ret'[n] = PyNone
                /\ tok'[n] = tok[n]
                /\ tok[n].times_passed = 0 /\ tok[n].time_elapsed = 0
          /\ (hook[n] = "start" /\ pc[n] # "idle"
                 /\ pc'[n] \in {"idle", "failed"}) =>
                /\ pc[n] = "returned"
                /\ slot'[n] = dumps(IF ret[n] # PyNone
                                    THEN ret[n] ELSE tok[n])
                /\ slot'[n] # NoKey /\ slot'[n] # EmptyText]_vars

\* C18: every delivery of a slot's token to the unit it names, a repeated
\* one included, makes that unit hop while times_passed is below the limit,
\* so that two units can each have acted on a token with the same
\* times_passed (the witness); a delivery to a unit the token does not
\* name, repeated or not, changes nothing.
C18_DuplicateDeliveryHopsAgain ==
    [][\A n \in Units :
          /\ (hook[n] = "changed" /\ Leaves(n) /\ depth[n] = 1
                 /\ tok[n].holder = n
                 /\ \/ stored[n].passes = NoLimit
                    \/ tok[n].times_passed < stored[n].passes) =>
                /\ Hops(n)
                /\ tok'[n].times_passed = tok[n].times_passed + 1
          /\ (hook[n] = "changed" /\ Leaves(n) /\ depth[n] = 1
                 /\ tok[n].holder # n) =>
                /\ pc'[n] = "returned" /\ ret'[n] = PyNone
                /\ tok'[n] = tok[n]
                /\ status' = status
          /\ (hook[n] = "changed" /\ pc[n] = "returned"
                 /\ ret[n] = PyNone /\ pc'[n] = "idle") =>
                /\ slot' = slot /\ pend' = pend
                /\ status' = status /\ stored' = stored]_vars

\* After a repeated delivery both units are in a hop at once, each on a
\* token that had one pass.
C18_Witness ==
    /\ pc["hp/0"] = "sleep" /\ pc["hp/1"] = "sleep"
    /\ hook["hp/0"] = "changed" /\ hook["hp/1"] = "changed"
    /\ tok["hp/0"].times_passed = 2
    /\ tok["hp/1"].times_passed = 2

\* C19: self-hops are processed in a loop: while one call of forward goes
\* through a run of self-hops, there is never more than one activation of
\* forward.
C19_SelfHopsAreIterative ==
    \A n \in Units : depth[n] <= 1

\* C20: in a game with one start action, the same pass limit on every unit
\* and every slot change delivered at most once, completion is reported at
\* most once and by one unit only; that unit holds the token whose
\* times_passed equals the limit; and a unit that receives such a token
\* without being its holder reports nothing.
C20_CompletionOnceByHolder ==
    [][/\ Cardinality({n \in Units : IsCompletion(status'[n])}) <= 1
       /\ \A n \in Units :
             /\ (IsCompletion(status'[n]) /\ status'[n] # status[n]) =>
                   /\ Leaves(n)
                   /\ tok[n].holder = n
             /\ (Leaves(n) /\ ~Hops(n) /\ tok[n].holder = n) =>
                   /\ ~Terminated
                   /\ stored[n].passes # NoLimit
                   /\ tok[n].times_passed = stored[n].passes
                   /\ status'[n] = CompletionStatus(tok[n])
             /\ (Leaves(n) /\ tok[n].holder # n
                    /\ tok[n].times_passed = stored[n].passes) =>
                   /\ status'[n] = status[n]
                   /\ pc'[n] = "returned" /\ ret'[n] = PyNone]_vars

\* One unit has reported completion, and another unit has handled the
\* change of the slot that holds the final token and stayed silent.
C20_Witness ==
    \E n \in Units : \E u \in Units \ {n} : \E m \in Units \ {n, u} :
        /\ IsCompletion(status[n])
        /\ slot[u] # NoKey
        /\ SlotToken(u).holder = n
        /\ SlotToken(u).times_passed = stored[n].passes
        /\ m \in members /\ pc[m] = "idle" /\ ~pend[m][u]
        /\ status[m] = IdleStatus

====
